---- MODULE Spec2Model ----
(***************************************************************************)
(* Model of the packed_dna workspace: the `dna` crate (dna/src/lib.rs),    *)
(* i.e. PackedDna with its two constructors, get, len, is_empty and vec,   *)
(* and the `nuccount` command line tool (nuccount/src/main.rs).            *)
(*                                                                         *)
(* Characters are ASCII code points, a text is a sequence of code points,  *)
(* a Nuc is one of the strings "A", "C", "G", "T", a u8 is a number in     *)
(* 0..255 and a Vec<u8> is a sequence of them.                             *)
(***************************************************************************)
EXTENDS Integers, Sequences, FiniteSets, TLC

VARIABLES
    pc,        \* position of the running entry point
    s,         \* from_str / main: the text supplied by the caller
    iter,      \* from_iter: the Nuc values the iterator yields
    upper,     \* from_str: the upper-cased copy of s
    loc,       \* the constructors' locals: packed_nucs, len, nucs_unit
    ret,       \* what the constructor returned
    last,      \* the last call made on the constructed PackedDna and its result
    i,         \* main: the loop index
    counts,    \* main: a_count, c_count, g_count, t_count
    calls,     \* main: the indices get was called with, in call order
    stdout     \* main: the lines printed

vars == <<pc, s, iter, upper, loc, ret, last, i, counts, calls, stdout>>

----------------------------------------------------------------------------
(* Bounds of the model *)

MaxStrLen == 5
MaxIterLen == 6
MaxOver == 1

\* the characters a caller's text is made of:
\* 'A' 'C' 'G' 'T' 'a' 'g' 'n' '-'
InputChars == {65, 67, 71, 84, 97, 103, 110, 45}

Nuc == {"A", "C", "G", "T"}

RECURSIVE SeqsUpTo(_, _)
SeqsUpTo(S, n) ==
    IF n = 0 THEN {<<>>}
    ELSE LET shorter == SeqsUpTo(S, n - 1)
         IN  shorter \cup {Append(q, x) : q \in {t \in shorter : Len(t) = n - 1}, x \in S}

Texts == SeqsUpTo(InputChars, MaxStrLen)
NucSeqs == SeqsUpTo(Nuc, MaxIterLen)

----------------------------------------------------------------------------
(* u8 arithmetic *)

U8 == 256

\* x << 2u8 on a u8: the bits shifted past bit 7 are dropped
Shl2(x) == (x * 4) % U8

RECURSIVE Pow2(_)
Pow2(n) == IF n = 0 THEN 1 ELSE 2 * Pow2(n - 1)

\* x >> n on a u8
Shr(x, n) == x \div Pow2(n)

\* x & 3
And3(x) == x % 4

----------------------------------------------------------------------------
(* str::to_ascii_uppercase *)

\* mutant: the range test misses 'a'
to_ascii_uppercase_char_SkipsA(c) == IF c > 97 /\ c <= 122 THEN c - 32 ELSE c

to_ascii_uppercase_char(c) == IF c >= 97 /\ c <= 122 THEN c - 32 ELSE c

\* mutant: the text is iterated as supplied, not upper-cased
to_ascii_uppercase_AsSupplied(t) == t

to_ascii_uppercase(t) == [k \in 1..Len(t) |-> to_ascii_uppercase_char(t[k])]

----------------------------------------------------------------------------
(* The constructors *)

NewLocals == [packed_nucs |-> <<>>, len |-> 0, nucs_unit |-> 0]

\* mutant: the unit is pushed but not reset
Flush_NoReset(l) ==
    IF l.len % 4 = 0 /\ l.len # 0
    THEN [l EXCEPT !.packed_nucs = Append(l.packed_nucs, l.nucs_unit)]
    ELSE l

\* `if len % 4 == 0 && len != 0 { packed_nucs.push(nucs_unit); nucs_unit = 0u8; }`
Flush(l) ==
    IF l.len % 4 = 0 /\ l.len # 0
    THEN [l EXCEPT !.packed_nucs = Append(l.packed_nucs, l.nucs_unit), !.nucs_unit = 0]
    ELSE l

\* mutant: the `_` arm packs the character as an A instead of returning
StrMatch_NoReject(unit, nuc) ==
    CASE nuc = 65 -> Shl2(unit)
      [] nuc = 67 -> Shl2(unit) + 1
      [] nuc = 71 -> Shl2(unit) + 2
      [] nuc = 84 -> Shl2(unit) + 3
      [] OTHER -> Shl2(unit)

\* from_str's `match nuc`: the new nucs_unit, or -1 for the `_` arm
StrMatch(unit, nuc) ==
    CASE nuc = 65 -> Shl2(unit)
      [] nuc = 67 -> Shl2(unit) + 1
      [] nuc = 71 -> Shl2(unit) + 2
      [] nuc = 84 -> Shl2(unit) + 3
      [] OTHER -> -1

\* mutant: the codes of G and T are exchanged
IterMatch_SwapGT(unit, nuc) ==
    CASE nuc = "A" -> Shl2(unit)
      [] nuc = "C" -> Shl2(unit) + 1
      [] nuc = "G" -> Shl2(unit) + 3
      [] nuc = "T" -> Shl2(unit) + 2

\* from_iter's `match nuc`
IterMatch(unit, nuc) ==
    CASE nuc = "A" -> Shl2(unit)
      [] nuc = "C" -> Shl2(unit) + 1
      [] nuc = "G" -> Shl2(unit) + 2
      [] nuc = "T" -> Shl2(unit) + 3

\* mutant: the last unit is pushed even when nothing was consumed
Finish_AlwaysPush(l) ==
    [nucs_vec |-> Append(l.packed_nucs, l.nucs_unit), length |-> l.len]

\* `if len != 0 { packed_nucs.push(nucs_unit); }` and the PackedDna built
Finish(l) ==
    [nucs_vec |-> IF l.len # 0 THEN Append(l.packed_nucs, l.nucs_unit) ELSE l.packed_nucs,
     length   |-> l.len]

Ok(v) == [tag |-> "Ok", val |-> v]
Err(e) == [tag |-> "Err", err |-> e]
None == [tag |-> "None", op |-> "None"]

\* one turn of from_str's `for nuc in upper.chars()`: the locals after it, or
\* the early `return Err(ParsePackedNucsError(nuc))`
from_str_body(l, nuc) ==
    LET f == Flush(l)
        unit == StrMatch(f.nucs_unit, nuc)
    IN  IF unit = -1 THEN Err(nuc)
        ELSE Ok([f EXCEPT !.nucs_unit = unit, !.len = f.len + 1])

\* one turn of from_iter's `for nuc in iter`
from_iter_body(l, nuc) ==
    LET f == Flush(l)
    IN  [f EXCEPT !.nucs_unit = IterMatch(f.nucs_unit, nuc), !.len = f.len + 1]

\* from_str's loop from locals l on: l.len characters of u are consumed
RECURSIVE from_str_loop(_, _)
from_str_loop(l, u) ==
    IF l.len = Len(u) THEN Ok(Finish(l))
    ELSE LET b == from_str_body(l, u[l.len + 1])
         IN  IF b.tag = "Err" THEN b ELSE from_str_loop(b.val, u)

\* PackedDna::from_str as one call
from_str(t) == from_str_loop(NewLocals, to_ascii_uppercase(t))

----------------------------------------------------------------------------
(* PackedDna's methods; self is [nucs_vec, length] *)

len(self) == self.length

is_empty(self) == self.length # 0

vec(self) == [k \in 1..Len(self.nucs_vec) |-> self.nucs_vec[k]]

Panic == [tag |-> "Panic"]

\* the `match nuc` of get
Decode(nuc, idx) ==
    CASE nuc = 0 -> Ok("A")
      [] nuc = 1 -> Ok("C")
      [] nuc = 2 -> Ok("G")
      [] nuc = 3 -> Ok("T")
      [] OTHER -> Err(idx)

\* mutant: the trailing unit is decoded like a full one
get_FullUnitOnly(self, idx) ==
    IF idx >= self.length THEN Err(idx)
    ELSE LET element_idx == idx \div 4
             bit_idx == idx % 4
         IN  IF element_idx >= Len(self.nucs_vec) THEN Panic
             ELSE Decode(And3(Shr(self.nucs_vec[element_idx + 1], 2 * (3 - bit_idx))), idx)

\* mutant: the bounds check is `idx > self.length`
get_OffByOne(self, idx) ==
    IF idx > self.length THEN Err(idx)
    ELSE LET max_full_unit == len(self) \div 4
             element_idx == idx \div 4
             bit_idx == idx % 4
         IN  IF element_idx >= Len(self.nucs_vec) THEN Panic
             ELSE LET nuc == self.nucs_vec[element_idx + 1]
                  IN  IF idx >= max_full_unit * 4
                      THEN IF len(self) - idx - 1 < 0 THEN Panic
                           ELSE Decode(And3(Shr(nuc, 2 * (len(self) - idx - 1))), idx)
                      ELSE Decode(And3(Shr(nuc, 2 * (3 - bit_idx))), idx)

\* Indexing a Vec past its end panics. `self.len() - idx - 1` cannot go below
\* zero past the bounds check; a usize going below zero is taken as the panic
\* of a build with overflow checks.
get(self, idx) ==
    IF idx >= self.length THEN Err(idx)
    ELSE LET max_full_unit == len(self) \div 4
             element_idx == idx \div 4
             bit_idx == idx % 4
         IN  IF element_idx >= Len(self.nucs_vec) THEN Panic
             ELSE LET nuc == self.nucs_vec[element_idx + 1]
                  IN  IF idx >= max_full_unit * 4
                      THEN IF len(self) - idx - 1 < 0 THEN Panic
                           ELSE Decode(And3(Shr(nuc, 2 * (len(self) - idx - 1))), idx)
                      ELSE Decode(And3(Shr(nuc, 2 * (3 - bit_idx))), idx)

----------------------------------------------------------------------------
(* The library, driven by a caller: one constructor runs turn by turn, then  *)
(* the caller calls the methods of the PackedDna it got.                     *)

NoCounts == [a_count |-> 0, c_count |-> 0, g_count |-> 0, t_count |-> 0]

\* from_str entered with s, at the head of its loop (lines 81-87 done)
InitFromStr ==
    /\ pc = "from_str"
    /\ s \in Texts
    /\ upper = to_ascii_uppercase(s)
    /\ iter = <<>>

\* from_iter entered with iter, at the head of its loop (lines 141-145 done)
InitFromIter ==
    /\ pc = "from_iter"
    /\ iter \in NucSeqs
    /\ s = <<>>
    /\ upper = <<>>

InitRest ==
    /\ loc = NewLocals
    /\ ret = None
    /\ last = None
    /\ i = 0
    /\ counts = NoCounts
    /\ calls = <<>>
    /\ stdout = <<>>

Init == (InitFromStr \/ InitFromIter) /\ InitRest

\* one turn of from_str's loop; on the early return the locals are dropped,
\* and are left as they stood at the head of the turn
FromStrTurn ==
    /\ pc = "from_str"
    /\ loc.len < Len(upper)
    /\ LET b == from_str_body(loc, upper[loc.len + 1])
       IN  IF b.tag = "Err"
           THEN /\ ret' = b
                /\ pc' = "returned"
                /\ loc' = loc
           ELSE /\ loc' = b.val
                /\ UNCHANGED <<ret, pc>>
    /\ UNCHANGED <<s, iter, upper, last, i, counts, calls, stdout>>

FromStrReturn ==
    /\ pc = "from_str"
    /\ loc.len = Len(upper)
    /\ ret' = Ok(Finish(loc))
    /\ pc' = "returned"
    /\ UNCHANGED <<s, iter, upper, loc, last, i, counts, calls, stdout>>

FromIterTurn ==
    /\ pc = "from_iter"
    /\ loc.len < Len(iter)
    /\ loc' = from_iter_body(loc, iter[loc.len + 1])
    /\ UNCHANGED <<pc, s, iter, upper, ret, last, i, counts, calls, stdout>>

FromIterReturn ==
    /\ pc = "from_iter"
    /\ loc.len = Len(iter)
    /\ ret' = Ok(Finish(loc))
    /\ pc' = "returned"
    /\ UNCHANGED <<s, iter, upper, loc, last, i, counts, calls, stdout>>

Returned == pc = "returned" /\ ret.tag = "Ok"

\* The methods borrow self immutably and PackedDna holds a Vec<u8> and a
\* usize, so a call leaves nothing behind for a later one: the caller is
\* followed through one call.
CallGet ==
    /\ Returned
    /\ last = None
    /\ \E idx \in 0..(ret.val.length + MaxOver) :
           last' = [op |-> "get", idx |-> idx, out |-> get(ret.val, idx)]
    /\ UNCHANGED <<pc, s, iter, upper, loc, ret, i, counts, calls, stdout>>

CallIsEmpty ==
    /\ Returned
    /\ last = None
    /\ last' = [op |-> "is_empty", out |-> is_empty(ret.val)]
    /\ UNCHANGED <<pc, s, iter, upper, loc, ret, i, counts, calls, stdout>>

Next ==
    \/ FromStrTurn
    \/ FromStrReturn
    \/ FromIterTurn
    \/ FromIterReturn
    \/ CallGet
    \/ CallIsEmpty

Spec == Init /\ [][Next]_vars

----------------------------------------------------------------------------
(* nuccount: main, run on the text given as --dna *)

Line(text, arg) == [text |-> text, arg |-> arg]

InitMain ==
    /\ pc = "main"
    /\ s \in Texts
    /\ upper = <<>>
    /\ iter = <<>>
    /\ InitRest

\* lines 31-47: print the input, parse it, leave on a parse error, else set
\* the counters
MainParse ==
    /\ pc = "main"
    /\ LET input == from_str(s)
       IN  /\ ret' = input
           /\ IF input.tag = "Err"
              THEN /\ stdout' = <<Line("Input: {}", s), Line("unsupported input", <<>>)>>
                   /\ pc' = "exit"
              ELSE /\ stdout' = <<Line("Input: {}", s)>>
                   /\ pc' = "for"
    /\ i' = 0
    /\ counts' = NoCounts
    /\ UNCHANGED <<s, iter, upper, loc, last, calls>>

\* mutant: a C is counted as a G
Count_CAsG(c, nuc) ==
    CASE nuc = "A" -> [c EXCEPT !.a_count = @ + 1]
      [] nuc = "C" -> [c EXCEPT !.g_count = @ + 1]
      [] nuc = "G" -> [c EXCEPT !.g_count = @ + 1]
      [] nuc = "T" -> [c EXCEPT !.t_count = @ + 1]

Count(c, nuc) ==
    CASE nuc = "A" -> [c EXCEPT !.a_count = @ + 1]
      [] nuc = "C" -> [c EXCEPT !.c_count = @ + 1]
      [] nuc = "G" -> [c EXCEPT !.g_count = @ + 1]
      [] nuc = "T" -> [c EXCEPT !.t_count = @ + 1]

\* one turn of `for i in 0..length`
MainFor ==
    /\ pc = "for"
    /\ i < len(ret.val)
    /\ LET nuc == get(ret.val, i)
       IN  /\ last' = [op |-> "get", idx |-> i, out |-> nuc]
           /\ calls' = Append(calls, i)
           /\ CASE nuc.tag = "Panic" ->
                     /\ pc' = "panic"
                     /\ UNCHANGED <<i, counts, stdout>>
                [] nuc.tag = "Err" ->
                     /\ stdout' = Append(stdout, Line("fail to get nucleotide with index {}", i))
                     /\ pc' = "exit"
                     /\ UNCHANGED <<i, counts>>
                [] nuc.tag = "Ok" ->
                     /\ counts' = Count(counts, nuc.val)
                     /\ i' = i + 1
                     /\ UNCHANGED <<pc, stdout>>
    /\ UNCHANGED <<s, iter, upper, loc, ret>>

\* lines 63-66
MainPrint ==
    /\ pc = "for"
    /\ i >= len(ret.val)
    /\ stdout' = stdout \o <<Line("A: {}", counts.a_count), Line("C: {}", counts.c_count),
                             Line("G: {}", counts.g_count), Line("T: {}", counts.t_count)>>
    /\ pc' = "exit"
    /\ UNCHANGED <<s, iter, upper, loc, ret, last, i, counts, calls>>

NextMain ==
    \/ MainParse
    \/ MainFor
    \/ MainPrint

SpecMain == InitMain /\ [][NextMain]_vars

----------------------------------------------------------------------------
(* Vocabulary of the properties, independent of the definitions above *)

\* the letters A/C/G/T in either case
NucLetters == {65, 67, 71, 84, 97, 99, 103, 116}

ValidText(t) == \A k \in 1..Len(t) : t[k] \in NucLetters

\* ASCII upper-casing of one character and of a text
UpperCased(c) == IF c \in 97..122 THEN c - 32 ELSE c
UpperCasedText(t) == [k \in 1..Len(t) |-> UpperCased(t[k])]

\* the Nuc an upper-case letter names
NucOfLetter(c) ==
    CASE c = 65 -> "A"
      [] c = 67 -> "C"
      [] c = 71 -> "G"
      [] c = 84 -> "T"
      [] OTHER -> "none"

\* the 2-bit code of a Nuc: A=0, C=1, G=2, T=3
CodeOfNuc(n) ==
    CASE n = "A" -> 0
      [] n = "C" -> 1
      [] n = "G" -> 2
      [] n = "T" -> 3
      [] OTHER -> 4

\* position of the first character of t that is no A/C/G/T letter (0: none)
FirstBad(t) ==
    IF ValidText(t) THEN 0
    ELSE CHOOSE k \in 1..Len(t) :
             /\ t[k] \notin NucLetters
             /\ \A j \in 1..(k - 1) : t[j] \in NucLetters

HasLower(t) == \E k \in 1..Len(t) : t[k] \in 97..122

\* a constructor returned after running on a text / on Nuc values
FromStrDone == pc = "returned" /\ iter = <<>>
FromIterDone == pc = "returned" /\ s = <<>>

----------------------------------------------------------------------------
\* C1: for every text s of A/C/G/T letters in any case, from_str(s) succeeds,
\* len() is the number of characters of s, and get(i) for every i below len
\* succeeds with the Nuc of the i-th character of s upper-cased.
C1_RoundTripText ==
    (FromStrDone /\ ValidText(s)) =>
        /\ ret.tag = "Ok"
        /\ len(ret.val) = Len(s)
        /\ last = None =>
               /\ from_str(s) = ret
               /\ \A idx \in 0..(Len(s) - 1) :
                      get(ret.val, idx) = Ok(NucOfLetter(UpperCased(s[idx + 1])))
        /\ (last.op = "get" /\ last.idx < Len(s)) =>
               last.out = Ok(NucOfLetter(UpperCased(s[last.idx + 1])))

\* a five-letter text with a lower-case letter was packed and its last
\* letter, the only one of the trailing unit, read back
C1_Witness ==
    /\ FromStrDone /\ ValidText(s) /\ HasLower(s) /\ Len(s) = 5
    /\ s[5] = 103
    /\ last.op = "get" /\ last.idx = 4 /\ last.out = Ok("G")

\* C2: for every PackedDna, the empty one included, and every index i at or
\* past its length, get(i) returns the index error carrying i; it does so
\* whatever the storage holds, and the PackedDna is still the one the
\* constructor returned.
C2_GetOutOfRange ==
    Returned =>
        /\ last = None =>
               \A idx \in len(ret.val)..(len(ret.val) + MaxOver) :
                   get(ret.val, idx) = Err(idx)
        /\ (last.op = "get" /\ last.idx >= len(ret.val)) =>
               /\ last.out = Err(last.idx)
               /\ get([ret.val EXCEPT !.nucs_vec = <<>>], last.idx) = Err(last.idx)
               /\ ret = Ok(Finish(loc))

\* get(4) was called on a PackedDna of four symbols, whose one unit is full
C2_Witness ==
    /\ Returned /\ len(ret.val) = 4 /\ Len(ret.val.nucs_vec) = 1
    /\ last.op = "get" /\ last.idx = 4 /\ last.out = Err(4)

\* C3: for every text holding a character outside A/C/G/T/a/c/g/t, wherever
\* it stands, from_str returns the parse error and no PackedDna; the loop
\* never gets past such a character.
C3_RejectInvalidText ==
    /\ (pc = "from_str") => ValidText(SubSeq(s, 1, loc.len))
    /\ (FromStrDone /\ ~ValidText(s)) =>
           /\ ret.tag = "Err"
           /\ "val" \notin DOMAIN ret
           /\ from_str(s) = ret

\* a five-character text with 'n' in the middle, valid letters before and
\* after it, was rejected
C3_Witness ==
    /\ FromStrDone /\ Len(s) = 5 /\ FirstBad(s) = 3
    /\ ValidText(SubSeq(s, 4, 5))
    /\ ret.tag = "Err"

\* C4: a PackedDna returned by either constructor with logical length L has
\* ceil(L / 4) storage units when L > 0 and none when L = 0.
C4_StorageSize ==
    Returned =>
        LET L == len(ret.val)
        IN  /\ L = Len(s) + Len(iter)
            /\ L = 0 => Len(vec(ret.val)) = 0
            /\ L > 0 => /\ 4 * Len(vec(ret.val)) >= L
                        /\ 4 * (Len(vec(ret.val)) - 1) < L

\* a constructor returned a PackedDna of exactly four symbols in one unit
C4_Witness ==
    /\ Returned /\ len(ret.val) = 4 /\ Len(iter) = 4 /\ Len(vec(ret.val)) = 1

\* C5: is_empty() is true exactly when len() = 0.
C5_IsEmpty ==
    (Returned /\ last.op = "is_empty") => (last.out <=> (len(ret.val) = 0))

\* C6: for every valid text s, from_str(s) and from_str(s upper-cased) give
\* the same storage units and the same length; for every invalid s both fail.
C6_CaseInvariance ==
    (FromStrDone /\ last = None) =>
        LET other == from_str(UpperCasedText(s))
        IN  IF ValidText(s)
            THEN /\ ret.tag = "Ok" /\ other.tag = "Ok"
                 /\ ret.val.nucs_vec = other.val.nucs_vec
                 /\ ret.val.length = other.val.length
            ELSE ret.tag = "Err" /\ other.tag = "Err"

\* a five-letter text all in lower case was packed
C6_Witness ==
    /\ FromStrDone /\ Len(s) = 5 /\ ValidText(s)
    /\ \A k \in 1..5 : s[k] \in 97..122
    /\ ret.tag = "Ok" /\ Len(ret.val.nucs_vec) = 2

\* C7: for every finite sequence v of Nuc values from_iter(v) returns a
\* PackedDna whose len() is the number of elements of v and whose get(i) is
\* v[i] for every i below len.
C7_RoundTripSymbols ==
    FromIterDone =>
        /\ ret.tag = "Ok"
        /\ len(ret.val) = Len(iter)
        /\ last = None =>
               \A idx \in 0..(Len(iter) - 1) : get(ret.val, idx) = Ok(iter[idx + 1])
        /\ (last.op = "get" /\ last.idx < Len(iter)) => last.out = Ok(iter[last.idx + 1])

\* six Nuc values, the four kinds among them, were packed and the fifth,
\* the first of the two of the trailing unit, read back
C7_Witness ==
    /\ FromIterDone /\ Len(iter) = 6
    /\ {iter[k] : k \in 1..6} = Nuc
    /\ iter[5] = "T" /\ iter[6] = "C"
    /\ last.op = "get" /\ last.idx = 4 /\ last.out = Ok("T")

\* C8 as stated: the parse error carries the first character of the input
\* that is no A/C/G/T letter, as the caller supplied it.
C8_PayloadAsSupplied ==
    (FromStrDone /\ ret.tag = "Err") => ret.err = s[FirstBad(s)]

\* C8 amended: the parse error carries the ASCII upper-cased form of the
\* first character of the input that is no A/C/G/T letter.
C8_PayloadUpperCased ==
    (FromStrDone /\ ret.tag = "Err") =>
        /\ FirstBad(s) # 0
        /\ ret.err = UpperCased(s[FirstBad(s)])

\* "AGn" was rejected with 'N'
C8_Witness ==
    /\ FromStrDone /\ ret.tag = "Err"
    /\ s = <<65, 71, 110>> /\ ret.err = 78

----------------------------------------------------------------------------
\* number of characters of t that are in the set c
Occurrences(t, c) == Cardinality({k \in 1..Len(t) : t[k] \in c})

UpTo(n) == [k \in 1..n |-> k - 1]

CountLines(a, c, g, tt) ==
    <<Line("A: {}", a), Line("C: {}", c), Line("G: {}", g), Line("T: {}", tt)>>

\* C9: on a text from_str accepts, main calls get for the indices 0, 1, ...,
\* len - 1 in that order, never takes its 'fail to get nucleotide' exit (nor
\* panics), cannot stop inside its loop, and ends having printed, after
\* the input, the lines A, C, G, T in that order, each with the number of
\* occurrences of the letter in either case, the four adding up to len; on a
\* text from_str rejects it prints 'unsupported input' and no count.
C9_CountingCli ==
    /\ pc # "panic"
    /\ pc = "for" => ENABLED (MainFor \/ MainPrint)
    /\ pc = "for" => /\ ret.tag = "Ok"
                     /\ calls = UpTo(i)
                     /\ i <= len(ret.val)
    /\ (pc = "exit" /\ ret.tag = "Ok") =>
           /\ ValidText(s)
           /\ len(ret.val) = Len(s)
           /\ calls = UpTo(Len(s))
           /\ stdout = <<Line("Input: {}", s)>> \o
                       CountLines(Occurrences(s, {65, 97}), Occurrences(s, {67, 99}),
                                  Occurrences(s, {71, 103}), Occurrences(s, {84, 116}))
           /\ stdout[2].arg + stdout[3].arg + stdout[4].arg + stdout[5].arg = len(ret.val)
    /\ (pc = "exit" /\ ret.tag = "Err") =>
           /\ ~ValidText(s)
           /\ calls = <<>>
           /\ stdout = <<Line("Input: {}", s), Line("unsupported input", <<>>)>>

\* main ended on "aGTCg" having printed A: 1, C: 1, G: 2, T: 1
C9_Witness ==
    /\ pc = "exit"
    /\ s = <<97, 71, 84, 67, 103>>
    /\ calls = <<0, 1, 2, 3, 4>>
    /\ Len(stdout) = 5
    /\ stdout[2] = Line("A: {}", 1) /\ stdout[3] = Line("C: {}", 1)
    /\ stdout[4] = Line("G: {}", 2) /\ stdout[5] = Line("T: {}", 1)

----------------------------------------------------------------------------
\* the codes of the symbols the running constructor was given
Codes ==
    IF iter # <<>> THEN [k \in 1..Len(iter) |-> CodeOfNuc(iter[k])]
    ELSE [k \in 1..Len(upper) |-> CodeOfNuc(NucOfLetter(upper[k]))]

\* the base-4 number whose digits are the codes c[from], ..., c[to]
RECURSIVE Base4(_, _, _)
Base4(c, from, to) ==
    IF to < from THEN 0 ELSE 4 * Base4(c, from, to - 1) + c[to]

RECURSIVE Pow4(_)
Pow4(n) == IF n = 0 THEN 1 ELSE 4 * Pow4(n - 1)

\* the 2-bit field of unit u at position p (0: bits 6-7, 3: bits 0-1)
Field(u, p) == (u \div Pow4(3 - p)) % 4

\* C10: in both constructors, after k symbols are consumed, the units flushed
\* number 0 when k = 0 and ceil(k / 4) - 1 otherwise, and nucs_unit is the
\* base-4 number of the codes of the m symbols consumed since the last flush,
\* earliest first, with 1 <= m <= 4 when k > 0, so it is below 4^m <= 256;
\* the shift of the next turn drops no set bit and its addition stays within
\* 8 bits; every flushed unit holds four symbols, the first in bits 6-7 and
\* the fourth in bits 0-1; a last unit of r < 4 symbols has its upper 8 - 2r
\* bits zero.
C10_LoopInvariant ==
    LET k == loc.len
        flushed == IF k = 0 THEN 0 ELSE (k - 1) \div 4
        m == k - 4 * flushed
    IN  /\ pc \in {"from_str", "from_iter"} =>
               /\ Len(loc.packed_nucs) = flushed
               /\ k > 0 => (m >= 1 /\ m <= 4)
               /\ loc.nucs_unit = Base4(Codes, k - m + 1, k)
               /\ loc.nucs_unit < Pow4(m) /\ Pow4(m) <= U8
               /\ \A j \in 1..flushed : \A p \in 0..3 :
                      Field(loc.packed_nucs[j], p) = Codes[4 * (j - 1) + p + 1]
               /\ k < Len(Codes) =>
                      /\ Flush(loc).nucs_unit * 4 < U8
                      /\ \A code \in 0..3 : Shl2(Flush(loc).nucs_unit) + code < U8
        /\ (Returned /\ last = None) =>
               /\ Len(ret.val.nucs_vec) = (IF k = 0 THEN 0 ELSE flushed + 1)
               /\ \A j \in 1..flushed : \A p \in 0..3 :
                      Field(ret.val.nucs_vec[j], p) = Codes[4 * (j - 1) + p + 1]
               /\ k > 0 => /\ ret.val.nucs_vec[flushed + 1] = Base4(Codes, k - m + 1, k)
                           /\ ret.val.nucs_vec[flushed + 1] < Pow4(m)

\* from_iter stands after six symbols: one unit flushed, two symbols, the
\* first of them not A, in nucs_unit
C10_Witness ==
    /\ pc = "from_iter" /\ loc.len = 6 /\ Len(iter) = 6
    /\ Len(loc.packed_nucs) = 1 /\ loc.packed_nucs[1] = 54
    /\ iter[5] = "T" /\ loc.nucs_unit = 12 + CodeOfNuc(iter[6])

====
